---- MODULE Spec2Model ----
(***************************************************************************)
(* Finding lifecycle, notification side effects and recurring-walk         *)
(* expansion of the Gemba Walk tracker (server/routes.ts, storage.ts).     *)
(* Every request handler is one action; the database tables are the state. *)
(***************************************************************************)
EXTENDS Integers, Sequences, FiniteSets, TLC

\* ------------------------------------------------------------------ values
\* JavaScript undefined (field absent from the request body) and SQL null.
UNDEF == "undefined"
NULL == "null"
\* serial ids start at 1; 0 stands for a null integer reference
NoId == 0

\* JavaScript truthiness of a string-valued body field
Truthy(v) == v \notin {UNDEF, NULL, ""}

\* ------------------------------------------------------------------ bounds
MaxWalks == 1
MaxFindings == 2

\* ------------------------------------------------------------------ users
\* rows of the users table: u1 is an administrator, the others plain users
Users == {"u1", "u2", "u3"}
Role(u) == IF u = "u1" THEN "admin" ELSE "user"
\* a user id that names no row of the users table
GhostUser == "ghost"

\* isAdmin middleware: the session user exists and has role admin
isAdmin(userId) == userId \in Users /\ Role(userId) = "admin"

\* ------------------------------------------------------------------ state
VARIABLES
    gembaWalks,             \* walk id -> row of gemba_walks
    gembaWalkAreas,         \* rows of gemba_walk_areas, in insertion order
    gembaWalkParticipants,  \* rows of gemba_walk_participants
    findings,               \* finding id -> row of findings
    notifications,          \* rows of notifications; the row id is the index
    nextWalkId,             \* serial of gemba_walks.id
    nextFindingId,          \* serial of findings.id
    last,                   \* the response just sent: endpoint, HTTP status, message
    requests                \* session -> the request it has in progress, between two awaits

vars == <<gembaWalks, gembaWalkAreas, gembaWalkParticipants, findings,
          notifications, nextWalkId, nextFindingId, last, requests>>

\* the connections that can have a request in progress at the same time
Sessions == {"s1", "s2"}

\* a session without a request in progress
Idle == [op |-> "idle"]

\* ------------------------------------------------------------------ responses
\* the response of a handler: HTTP status and message and, for a success, the
\* id of the row it returns (for a counting endpoint the count) and the
\* branches the handler took
Response(op, code, message, id, effect) ==
    [op |-> op, code |-> code, message |-> message, id |-> id, effect |-> effect]

\* variant: only a missing row or an exception ends the handler
Returned_OnlyNotFound(code) == code \in {404, 500}

\* a handler that has answered with an error status has returned: nothing
\* after the return statement runs
Returned(code) == code # 200

\* ------------------------------------------------------------------ tables
\* DELETE FROM <table> WHERE gemba_walk_id = id
DeleteByWalk(rows, id) == SelectSeq(rows, LAMBDA r : r.gembaWalkId # id)

\* Array.prototype.slice(1)
Slice1(s) == IF Len(s) <= 1 THEN <<>> ELSE SubSeq(s, 2, Len(s))

\* table with one more row / without a set of rows
Insert(table, id, row) == [i \in DOMAIN table \cup {id} |-> IF i = id THEN row ELSE table[i]]
Remove(table, ids) == [i \in DOMAIN table \ ids |-> table[i]]

\* ------------------------------------------------------------------ dates
\* A date text "yyyy-MM-dd" is the triple <<year, month 1..12, day>>; a
\* JavaScript Date at local midnight is [year, month 0..11, date].
IsLeap(y) == (y % 4 = 0 /\ y % 100 # 0) \/ y % 400 = 0

\* number of days of month m0 (0-based) of year y
DaysInMonth(y, m0) ==
    IF m0 = 1 THEN (IF IsLeap(y) THEN 29 ELSE 28)
    ELSE IF m0 \in {3, 5, 8, 10} THEN 30 ELSE 31

\* the date text of a request that carries none, and the Date that is null
NoDateText == <<0, 0, 0>>
NoDate == [year |-> 0, month |-> 0, date |-> 0]

\* date-fns parseISO of a date-only text
parseISO(text) == [year |-> text[1], month |-> text[2] - 1, date |-> text[3]]

\* date-fns format(d, "yyyy-MM-dd")
format(d) == <<d.year, d.month + 1, d.date>>

\* Date whose day-of-month ran past the end of its month, as setDate rolls it
RECURSIVE Normalize(_)
Normalize(d) ==
    IF d.date <= DaysInMonth(d.year, d.month) THEN d
    ELSE Normalize([year |-> IF d.month = 11 THEN d.year + 1 ELSE d.year,
                    month |-> (d.month + 1) % 12,
                    date |-> d.date - DaysInMonth(d.year, d.month)])

\* variant: the new day-of-month is cut at the end of the month instead of
\* rolling into the next one
addWeeks_Clamped(d, amount) ==
    [d EXCEPT !.date = IF d.date + 7 * amount > DaysInMonth(d.year, d.month)
                       THEN DaysInMonth(d.year, d.month) ELSE d.date + 7 * amount]

\* date-fns addWeeks(d, amount) = addDays(d, 7 * amount): setDate(getDate() + days)
addWeeks(d, amount) == Normalize([d EXCEPT !.date = d.date + 7 * amount])

\* date-fns addMonths(d, amount): same day-of-month, clamped to the last day
\* of the target month
addMonths(d, amount) ==
    LET total == d.month + amount
        y == d.year + total \div 12
        m0 == total % 12
        dim == DaysInMonth(y, m0)
    IN  [year |-> y, month |-> m0, date |-> IF d.date >= dim THEN dim ELSE d.date]

\* JavaScript a > b on two Dates (comparison of the time values)
DateAfter(a, b) ==
    \/ a.year > b.year
    \/ a.year = b.year /\ a.month > b.month
    \/ a.year = b.year /\ a.month = b.month /\ a.date > b.date

\* ------------------------------------------------------------------ recurrence
\* hard cap of derived walks per request
maxEvents == 12

\* one advance of the cursor; a pattern other than weekly or monthly leaves it
NextDate(currentDate, recurrencePattern) ==
    IF recurrencePattern = "weekly" THEN addWeeks(currentDate, 1)
    ELSE IF recurrencePattern = "monthly" THEN addMonths(currentDate, 1)
    ELSE currentDate

\* variant: the loop also ends when the cursor is on the end date
PastEnd_OrOnEnd(currentDate, endDate) == endDate # NoDate /\ ~DateAfter(endDate, currentDate)

\* the end-date test that leaves the loop
PastEnd(currentDate, endDate) == endDate # NoDate /\ DateAfter(currentDate, endDate)

\* the dates of the derived walks, in creation order: the while loop
RECURSIVE RecurrenceLoop(_, _, _, _)
RecurrenceLoop(currentDate, endDate, recurrencePattern, eventCount) ==
    IF eventCount >= maxEvents THEN <<>>
    ELSE LET next == NextDate(currentDate, recurrencePattern)
         IN  IF PastEnd(next, endDate) THEN <<>>
             ELSE <<next>> \o RecurrenceLoop(next, endDate, recurrencePattern, eventCount + 1)

\* dates of the walks a creation request derives from its seed
RecurringDates(body) ==
    IF body.isRecurring /\ Truthy(body.recurrencePattern)
    THEN RecurrenceLoop(parseISO(body.date),
                        IF body.recurrenceEndDate # NoDateText THEN parseISO(body.recurrenceEndDate) ELSE NoDate,
                        body.recurrencePattern, 0)
    ELSE <<>>

\* ------------------------------------------------------------------ walks
\* request validation of POST /api/gemba-walks: the message of the 400
\* response, "ok" when the body is accepted
WalkBodyError(body) ==
    IF body.date = NoDateText \/ Len(body.areas) = 0
    THEN "Fecha y al menos un area son requeridos"
    ELSE IF body.isRecurring /\ ~Truthy(body.recurrencePattern)
    THEN "Debes seleccionar una frecuencia para Gemba Walks recurrentes"
    ELSE "ok"

\* the seed row (or the row of an individual walk)
SeedWalk(userId, body) ==
    [date |-> body.date,
     area |-> body.areas[1],
     leaderId |-> IF Truthy(body.leaderId) THEN body.leaderId ELSE NULL,
     createdBy |-> userId,
     isRecurring |-> body.isRecurring,
     recurrencePattern |-> IF Truthy(body.recurrencePattern) THEN body.recurrencePattern ELSE NULL,
     recurrenceEndDate |-> body.recurrenceEndDate,
     parentWalkId |-> NoId]

\* variant: the derived walk is a copy of the seed row with a new date
RecurringWalk_CopyOfSeed(userId, body, currentDate, parentId) ==
    [SeedWalk(userId, body) EXCEPT !.date = format(currentDate), !.parentWalkId = parentId]

\* the row of a walk derived from the seed with id parentId
RecurringWalk(userId, body, currentDate, parentId) ==
    [date |-> format(currentDate),
     area |-> body.areas[1],
     leaderId |-> IF Truthy(body.leaderId) THEN body.leaderId ELSE NULL,
     createdBy |-> userId,
     isRecurring |-> FALSE,
     recurrencePattern |-> NULL,
     recurrenceEndDate |-> NoDateText,
     parentWalkId |-> parentId]

\* rows of gemba_walk_areas / gemba_walk_participants inserted for one walk
AreaRows(body, walkId) ==
    [i \in 1..Len(Slice1(body.areas)) |-> [gembaWalkId |-> walkId, areaName |-> Slice1(body.areas)[i]]]
ParticipantRows(body, walkId) ==
    [i \in 1..Len(body.participantIds) |-> [gembaWalkId |-> walkId, userId |-> body.participantIds[i]]]

\* variant: the insert leaves isActionRequired to the column default
WalkNotification_ColumnDefault(userId, walkId) ==
    [userId |-> userId, type |-> "gemba_walk_assigned",
     relatedFindingId |-> NoId, relatedGembaWalkId |-> walkId,
     isRead |-> FALSE, isActionRequired |-> TRUE, isActionCompleted |-> FALSE]

\* a gemba_walk_assigned notification
WalkNotification(userId, walkId) ==
    [userId |-> userId, type |-> "gemba_walk_assigned",
     relatedFindingId |-> NoId, relatedGembaWalkId |-> walkId,
     isRead |-> FALSE, isActionRequired |-> FALSE, isActionCompleted |-> FALSE]

LeaderNotification(body, walkId) ==
    IF Truthy(body.leaderId) THEN <<WalkNotification(body.leaderId, walkId)>> ELSE <<>>
ParticipantNotifications(body, walkId) ==
    [i \in 1..Len(body.participantIds) |-> WalkNotification(body.participantIds[i], walkId)]

\* notifications of the seed: leader first, then participants
SeedNotifications(body, walkId) ==
    LeaderNotification(body, walkId) \o ParticipantNotifications(body, walkId)
\* notifications of a derived walk: participants first, then leader
RecurringNotifications(body, walkId) ==
    ParticipantNotifications(body, walkId) \o LeaderNotification(body, walkId)

\* the rows of several inserts, in the order the loop issues them
RECURSIVE Flatten(_)
Flatten(inserts) == IF inserts = <<>> THEN <<>> ELSE Head(inserts) \o Flatten(Tail(inserts))

\* POST /api/gemba-walks
CreateGembaWalk(userId, body) ==
    LET dates == RecurringDates(body)
        n == Len(dates)
        walkId == nextWalkId
        instanceId(i) == walkId + i
        newWalks == [i \in walkId..(walkId + n) |->
                        IF i = walkId THEN SeedWalk(userId, body)
                        ELSE RecurringWalk(userId, body, dates[i - walkId], walkId)]
    IN  IF ~isAdmin(userId) THEN
            /\ last' = Response("CreateGembaWalk", 403, "No tienes permisos de administrador", NoId, {})
            /\ UNCHANGED <<gembaWalks, gembaWalkAreas, gembaWalkParticipants, findings,
                           notifications, nextWalkId, nextFindingId, requests>>
        ELSE IF WalkBodyError(body) # "ok" THEN
            /\ last' = Response("CreateGembaWalk", 400, WalkBodyError(body), NoId, {})
            /\ UNCHANGED <<gembaWalks, gembaWalkAreas, gembaWalkParticipants, findings,
                           notifications, nextWalkId, nextFindingId, requests>>
        ELSE
            /\ nextWalkId <= MaxWalks
            /\ gembaWalks' = [i \in DOMAIN gembaWalks \cup DOMAIN newWalks |->
                                IF i \in DOMAIN newWalks THEN newWalks[i] ELSE gembaWalks[i]]
            /\ gembaWalkAreas' = gembaWalkAreas \o Flatten([i \in 1..(n + 1) |-> AreaRows(body, walkId + i - 1)])
            /\ gembaWalkParticipants' = gembaWalkParticipants
                    \o Flatten([i \in 1..(n + 1) |-> ParticipantRows(body, walkId + i - 1)])
            /\ notifications' = notifications \o SeedNotifications(body, walkId)
                    \o Flatten([i \in 1..n |-> RecurringNotifications(body, instanceId(i))])
            /\ nextWalkId' = nextWalkId + n + 1
            /\ last' = Response("CreateGembaWalk", 200, "ok", walkId, {})
            /\ UNCHANGED <<findings, nextFindingId, requests>>

\* DatabaseStorage.deleteGembaWalk: the findings of the walk, then the walk
deleteGembaWalk(id) ==
    /\ findings' = Remove(findings, {f \in DOMAIN findings : findings[f].gembaWalkId = id})
    /\ gembaWalks' = Remove(gembaWalks, {id})

\* variant: the notifications of the walk are deleted with it
DeleteGembaWalk_WithNotifications(userId, id) ==
    /\ isAdmin(userId)
    /\ gembaWalkAreas' = DeleteByWalk(gembaWalkAreas, id)
    /\ gembaWalkParticipants' = DeleteByWalk(gembaWalkParticipants, id)
    /\ deleteGembaWalk(id)
    /\ notifications' = SelectSeq(notifications, LAMBDA r : r.relatedGembaWalkId # id)
    /\ last' = Response("DeleteGembaWalk", 200, "ok", id, {})
    /\ UNCHANGED <<nextWalkId, nextFindingId, requests>>

\* DELETE /api/gemba-walks/:id
DeleteGembaWalk(userId, id) ==
    IF ~isAdmin(userId) THEN
        /\ last' = Response("DeleteGembaWalk", 403, "No tienes permisos de administrador", NoId, {})
        /\ UNCHANGED <<gembaWalks, gembaWalkAreas, gembaWalkParticipants, findings,
                       notifications, nextWalkId, nextFindingId, requests>>
    ELSE
        /\ gembaWalkAreas' = DeleteByWalk(gembaWalkAreas, id)
        /\ gembaWalkParticipants' = DeleteByWalk(gembaWalkParticipants, id)
        /\ deleteGembaWalk(id)
        /\ last' = Response("DeleteGembaWalk", 200, "ok", id, {})
        /\ UNCHANGED <<notifications, nextWalkId, nextFindingId, requests>>

\* ------------------------------------------------------------------ findings
\* POST /api/findings: the required body fields are all present
RequiredFieldsPresent(body) ==
    /\ body.gembaWalkId # NoId
    /\ Truthy(body.category)
    /\ Truthy(body.description)
    /\ Truthy(body.responsibleId)

\* variant: the creator of the walk passes the leader check as well
IsLeader_OrCreator(walk, userId) ==
    (walk.leaderId # NULL /\ walk.leaderId = userId) \/ walk.createdBy = userId

\* only the leader of the walk may create findings on it
IsLeader(walk, userId) == walk.leaderId # NULL /\ walk.leaderId = userId

\* the status a new finding is stored with
InitialStatus(status) == IF Truthy(status) THEN status ELSE "open"

\* the row storage.createFinding inserts
NewFinding(body) ==
    [gembaWalkId |-> body.gembaWalkId,
     area |-> IF Truthy(body.area) THEN body.area ELSE NULL,
     category |-> body.category,
     description |-> body.description,
     responsibleId |-> body.responsibleId,
     dueDate |-> NULL,
     status |-> InitialStatus(body.status),
     closeComment |-> NULL,
     closeEvidenceUrl |-> NULL]

\* variant: the notification is inserted like a walk notification, no action required
FindingNotification_NoAction(responsibleId, findingId) ==
    [userId |-> responsibleId, type |-> "finding_assigned",
     relatedFindingId |-> findingId, relatedGembaWalkId |-> NoId,
     isRead |-> FALSE, isActionRequired |-> FALSE, isActionCompleted |-> FALSE]

\* the notification for the responsible user of a new finding
FindingNotification(responsibleId, findingId) ==
    [userId |-> responsibleId, type |-> "finding_assigned",
     relatedFindingId |-> findingId, relatedGembaWalkId |-> NoId,
     isRead |-> FALSE, isActionRequired |-> TRUE, isActionCompleted |-> FALSE]

\* the checks of POST /api/findings, in order: status and message of the
\* response they end in (200 when all pass)
CreateFindingCheck(userId, body) ==
    IF ~RequiredFieldsPresent(body)
    THEN <<400, "Gemba Walk, categoria, descripcion y responsable son requeridos">>
    ELSE IF body.gembaWalkId \notin DOMAIN gembaWalks
    THEN <<404, "Gemba Walk no encontrado">>
    ELSE IF ~IsLeader(gembaWalks[body.gembaWalkId], userId)
    THEN <<403, "Solo el lider del Gemba Walk puede crear hallazgos">>
    ELSE IF body.responsibleId \notin Users
    THEN <<400, "Usuario responsable no encontrado">>
    ELSE <<200, "ok">>

\* POST /api/findings
CreateFinding(userId, body) ==
    LET check == CreateFindingCheck(userId, body)
        id == nextFindingId
    IN  /\ last' = Response("CreateFinding", check[1], check[2],
                            IF check[1] = 200 THEN id ELSE body.gembaWalkId, {})
        /\ IF Returned(check[1]) THEN
               UNCHANGED <<gembaWalks, gembaWalkAreas, gembaWalkParticipants, findings,
                           notifications, nextWalkId, nextFindingId, requests>>
           ELSE
               /\ nextFindingId <= MaxFindings
               /\ findings' = Insert(findings, id, NewFinding(body))
               /\ notifications' = Append(notifications, FindingNotification(body.responsibleId, id))
               /\ nextFindingId' = nextFindingId + 1
               /\ UNCHANGED <<gembaWalks, gembaWalkAreas, gembaWalkParticipants, nextWalkId, requests>>

\* PATCH /api/findings/:id: the actor's roles
IsResponsible(finding, userId) == finding.responsibleId = userId
\* variant: the leader of the walk counts as its creator
IsCreator_OrLeader(finding, userId) ==
    /\ finding.gembaWalkId \in DOMAIN gembaWalks
    /\ userId \in {gembaWalks[finding.gembaWalkId].createdBy, gembaWalks[finding.gembaWalkId].leaderId}

IsCreator(finding, userId) ==
    /\ finding.gembaWalkId \in DOMAIN gembaWalks
    /\ gembaWalks[finding.gembaWalkId].createdBy = userId
\* variant: the permission check lets every authenticated user through
CanUpdate_Anyone(isResponsible, isCreator) == TRUE
CanUpdate(isResponsible, isCreator) == isResponsible \/ isCreator

\* variant: the closing guard is missing
CloseForbidden_Never(status, isResponsible) == FALSE

\* a status update into closed by someone who is not the responsible user
CloseForbidden(status, isResponsible) == status = "closed" /\ ~isResponsible

\* variant: the due-date guard is missing
DueDateForbidden_Never(dueDate, isResponsible) == FALSE

\* a due date supplied by someone who is not the responsible user
DueDateForbidden(dueDate, isResponsible) == dueDate # UNDEF /\ ~isResponsible

\* variant: the first-time test is inverted
FirstDueDate_Inverted(finding, dueDate) == Truthy(finding.dueDate) /\ Truthy(dueDate)

\* the request sets the first due date of the finding
FirstDueDate(finding, dueDate) == ~Truthy(finding.dueDate) /\ Truthy(dueDate)

\* variant: the already-closed test is missing
Closing_Always(finding, status) == status = "closed"

\* variant: the already-closed test is inverted
Closing_Inverted(finding, status) == status = "closed" /\ finding.status = "closed"

\* the request closes a finding that is not yet closed
Closing(finding, status) == status = "closed" /\ finding.status # "closed"

\* UPDATE notifications SET is_action_completed = true WHERE <the selected rows>
SetActionCompleted(rows, selected) ==
    [i \in 1..Len(rows) |->
        IF i \in selected THEN [rows[i] EXCEPT !.isActionCompleted = TRUE] ELSE rows[i]]

\* the rows the first-due-date update selects: of its two .where() calls the
\* query builder keeps the last one
AssignedWhere(rows, id) == {i \in 1..Len(rows) : rows[i].type = "finding_assigned"}

\* the rows the closing update selects
RelatedWhere(rows, id) == {i \in 1..Len(rows) : rows[i].relatedFindingId = id}

\* the notification updates of one PATCH, in the order the handler issues them
UpdateNotifications(rows, finding, id, body) ==
    LET afterDue == IF body.dueDate # UNDEF /\ FirstDueDate(finding, body.dueDate)
                    THEN SetActionCompleted(rows, AssignedWhere(rows, id))
                    ELSE rows
    IN  IF Closing(finding, body.status)
        THEN SetActionCompleted(afterDue, RelatedWhere(afterDue, id))
        ELSE afterDue

\* the fields of updateData that the request sets
SetsStatus(body) == Truthy(body.status)
SetsCloseComment(body) == body.closeComment # UNDEF
SetsCloseEvidence(body) == body.file # UNDEF /\ body.status = "closed"
SetsDueDate(body) == body.dueDate # UNDEF
EmptyUpdate(body) ==
    ~SetsStatus(body) /\ ~SetsCloseComment(body) /\ ~SetsCloseEvidence(body) /\ ~SetsDueDate(body)

\* the URL stored for an uploaded evidence file kept on the local disk
EvidenceUrl(filename) == "/uploads/" \o filename

\* DatabaseStorage.updateFinding with the handler's updateData
updateFinding(finding, body) ==
    [finding EXCEPT
        !.status = IF SetsStatus(body) THEN body.status ELSE @,
        !.closeComment = IF SetsCloseComment(body) THEN body.closeComment ELSE @,
        !.closeEvidenceUrl = IF SetsCloseEvidence(body) THEN EvidenceUrl(body.file) ELSE @,
        !.dueDate = IF SetsDueDate(body) THEN (IF Truthy(body.dueDate) THEN body.dueDate ELSE NULL) ELSE @]

\* the checks of PATCH /api/findings/:id, in order: status and message of the
\* response they end in; 500 is the UPDATE that sets no column and throws
UpdateFindingCheck(userId, id, body) ==
    IF id \notin DOMAIN findings THEN <<404, "Hallazgo no encontrado">>
    ELSE LET finding == findings[id]
             isResponsible == IsResponsible(finding, userId)
             isCreator == IsCreator(finding, userId)
         IN  IF ~CanUpdate(isResponsible, isCreator)
             THEN <<403, "No tienes permisos para actualizar este hallazgo">>
             ELSE IF Truthy(body.status) /\ CloseForbidden(body.status, isResponsible)
             THEN <<403, "Solo el responsable puede cerrar el hallazgo">>
             ELSE IF DueDateForbidden(body.dueDate, isResponsible)
             THEN <<403, "Solo el responsable puede establecer la fecha de compromiso">>
             ELSE IF EmptyUpdate(body)
             THEN <<500, "Error al actualizar hallazgo">>
             ELSE <<200, "ok">>

\* the branches a successful PATCH takes: the two notification updates, and
\* the closing request that skips its update because the finding is closed
UpdateEffect(finding, body) ==
    (IF body.dueDate # UNDEF /\ FirstDueDate(finding, body.dueDate) THEN {"firstDueDate"} ELSE {})
    \cup (IF Closing(finding, body.status) THEN {"closing"} ELSE {})
    \cup (IF body.status = "closed" /\ ~Closing(finding, body.status) THEN {"alreadyClosed"} ELSE {})

\* PATCH /api/findings/:id
UpdateFinding(userId, id, body) ==
    LET check == UpdateFindingCheck(userId, id, body)
    IN  /\ last' = IF check[1] = 200
                   THEN Response("UpdateFinding", 200, "ok", id, UpdateEffect(findings[id], body))
                   ELSE Response("UpdateFinding", check[1], check[2], NoId, {})
        /\ IF Returned(check[1]) THEN
               UNCHANGED <<gembaWalks, gembaWalkAreas, gembaWalkParticipants, findings,
                           notifications, nextWalkId, nextFindingId, requests>>
           ELSE
               /\ notifications' = UpdateNotifications(notifications, findings[id], id, body)
               /\ findings' = [findings EXCEPT ![id] = updateFinding(@, body)]
               /\ UNCHANGED <<gembaWalks, gembaWalkAreas, gembaWalkParticipants,
                              nextWalkId, nextFindingId, requests>>

\* ------------------------------------------------------------------ notifications
\* variant: the ownership condition is missing from the lookup
OwnNotification_AnyUser(id, userId) == id \in 1..Len(notifications)

\* the notification with this id, addressed to this user
OwnNotification(id, userId) == id \in 1..Len(notifications) /\ notifications[id].userId = userId

\* variant: the query leaves out the isActionRequired condition
pendingCount_AllIncomplete(userId) ==
    Len(SelectSeq(notifications, LAMBDA n : n.userId = userId /\ n.isActionCompleted = FALSE))

\* GET /api/notifications/pending-count: the length of the selected rows
pendingCount(userId) ==
    Len(SelectSeq(notifications, LAMBDA n :
            n.userId = userId /\ n.isActionRequired = TRUE /\ n.isActionCompleted = FALSE))

\* GET /api/notifications/pending-count
PendingCount(userId) ==
    /\ last' = Response("PendingCount", 200, "ok", pendingCount(userId), {})
    /\ UNCHANGED <<gembaWalks, gembaWalkAreas, gembaWalkParticipants, findings,
                   notifications, nextWalkId, nextFindingId, requests>>

\* PATCH /api/notifications/:id/read
MarkRead(userId, id) ==
    /\ last' = IF OwnNotification(id, userId)
               THEN Response("MarkRead", 200, "ok", id, {})
               ELSE Response("MarkRead", 404, "Notificacion no encontrada", NoId, {})
    /\ notifications' = IF OwnNotification(id, userId)
                        THEN [notifications EXCEPT ![id].isRead = TRUE]
                        ELSE notifications
    /\ UNCHANGED <<gembaWalks, gembaWalkAreas, gembaWalkParticipants, findings,
                   nextWalkId, nextFindingId, requests>>

\* PATCH /api/notifications/:id/action-completed
MarkActionCompleted(userId, id) ==
    /\ last' = IF OwnNotification(id, userId)
               THEN Response("MarkActionCompleted", 200, "ok", id, {})
               ELSE Response("MarkActionCompleted", 404, "Notificacion no encontrada", NoId, {})
    /\ notifications' = IF OwnNotification(id, userId)
                        THEN [notifications EXCEPT ![id].isActionCompleted = TRUE]
                        ELSE notifications
    /\ UNCHANGED <<gembaWalks, gembaWalkAreas, gembaWalkParticipants, findings,
                   nextWalkId, nextFindingId, requests>>

\* PATCH /api/notifications/read-all
MarkAllRead(userId) ==
    /\ last' = Response("MarkAllRead", 200, "ok", NoId, {})
    /\ notifications' = [i \in 1..Len(notifications) |->
                            IF notifications[i].userId = userId /\ notifications[i].isRead = FALSE
                            THEN [notifications[i] EXCEPT !.isRead = TRUE]
                            ELSE notifications[i]]
    /\ UNCHANGED <<gembaWalks, gembaWalkAreas, gembaWalkParticipants, findings,
                   nextWalkId, nextFindingId, requests>>

\* ------------------------------------------------------------------ walk creation, call by call
\* POST /api/gemba-walks as the sequence of its awaited persistence calls.
\* The handler runs in no transaction: a call that throws ends the request
\* in the catch block and the calls before it stay applied.
Call(call, date) == [call |-> call, date |-> date]

\* the calls that follow the insert of a walk row
AreasCall(body) == IF Len(body.areas) > 1 THEN <<Call("areas", NoDate)>> ELSE <<>>
ParticipantsCall(body) ==
    IF Len(body.participantIds) > 0 THEN <<Call("participants", NoDate)>> ELSE <<>>
LeaderNotificationCall(body) ==
    IF Truthy(body.leaderId) THEN <<Call("leaderNotification", NoDate)>> ELSE <<>>
ParticipantNotificationsCall(body) ==
    IF Len(body.participantIds) > 0 THEN <<Call("participantNotifications", NoDate)>> ELSE <<>>

\* the calls for the seed, and for the walk derived for one date
SeedCalls(body) ==
    <<Call("seed", NoDate)>> \o AreasCall(body) \o ParticipantsCall(body)
        \o LeaderNotificationCall(body) \o ParticipantNotificationsCall(body)
InstanceCalls(body, currentDate) ==
    <<Call("instance", currentDate)>> \o AreasCall(body) \o ParticipantsCall(body)
        \o ParticipantNotificationsCall(body) \o LeaderNotificationCall(body)

\* all persistence calls of one request, in order
PersistenceCalls(body) ==
    SeedCalls(body)
    \o Flatten([i \in 1..Len(RecurringDates(body)) |-> InstanceCalls(body, RecurringDates(body)[i])])

\* the request is accepted and reaches its first persistence call
CreateGembaWalkBegin(s, userId, body) ==
    /\ requests[s] = Idle
    /\ IF ~isAdmin(userId) THEN
           /\ last' = Response("CreateGembaWalk", 403, "No tienes permisos de administrador", NoId, {})
           /\ UNCHANGED requests
       ELSE IF WalkBodyError(body) # "ok" THEN
           /\ last' = Response("CreateGembaWalk", 400, WalkBodyError(body), NoId, {})
           /\ UNCHANGED requests
       ELSE
           /\ nextWalkId <= MaxWalks
           /\ requests' = [requests EXCEPT ![s] =
                  [op |-> "CreateGembaWalk", userId |-> userId, body |-> body,
                   pc |-> 1, seedId |-> NoId, walkId |-> NoId]]
           /\ UNCHANGED last
    /\ UNCHANGED <<gembaWalks, gembaWalkAreas, gembaWalkParticipants, findings,
                   notifications, nextWalkId, nextFindingId>>

\* the request has a persistence call left
CreateGembaWalkRunning(s) ==
    /\ requests[s].op = "CreateGembaWalk"
    /\ requests[s].pc <= Len(PersistenceCalls(requests[s].body))

\* the next persistence call of the request succeeds
CreateGembaWalkCall(s) ==
    /\ CreateGembaWalkRunning(s)
    /\ LET r == requests[s]
           c == PersistenceCalls(r.body)[r.pc]
           inserted == c.call \in {"seed", "instance"}
       IN  /\ gembaWalks' =
                  IF c.call = "seed" THEN Insert(gembaWalks, nextWalkId, SeedWalk(r.userId, r.body))
                  ELSE IF c.call = "instance"
                  THEN Insert(gembaWalks, nextWalkId, RecurringWalk(r.userId, r.body, c.date, r.seedId))
                  ELSE gembaWalks
           /\ nextWalkId' = IF inserted THEN nextWalkId + 1 ELSE nextWalkId
           /\ gembaWalkAreas' =
                  IF c.call = "areas" THEN gembaWalkAreas \o AreaRows(r.body, r.walkId) ELSE gembaWalkAreas
           /\ gembaWalkParticipants' =
                  IF c.call = "participants"
                  THEN gembaWalkParticipants \o ParticipantRows(r.body, r.walkId)
                  ELSE gembaWalkParticipants
           /\ notifications' =
                  IF c.call = "leaderNotification"
                  THEN notifications \o LeaderNotification(r.body, r.walkId)
                  ELSE IF c.call = "participantNotifications"
                  THEN notifications \o ParticipantNotifications(r.body, r.walkId)
                  ELSE notifications
           /\ requests' = [requests EXCEPT ![s] =
                  [r EXCEPT !.pc = r.pc + 1,
                            !.seedId = IF c.call = "seed" THEN nextWalkId ELSE @,
                            !.walkId = IF inserted THEN nextWalkId ELSE @]]
    /\ UNCHANGED <<findings, nextFindingId, last>>

\* the next persistence call of the request throws
CreateGembaWalkThrows(s) ==
    /\ CreateGembaWalkRunning(s)
    /\ last' = Response("CreateGembaWalk", 500, "Error al crear recorrido", NoId, {})
    /\ requests' = [requests EXCEPT ![s] = Idle]
    /\ UNCHANGED <<gembaWalks, gembaWalkAreas, gembaWalkParticipants, findings,
                   notifications, nextWalkId, nextFindingId>>

\* every call has succeeded: the seed is sent back
CreateGembaWalkRespond(s) ==
    /\ requests[s].op = "CreateGembaWalk"
    /\ ~CreateGembaWalkRunning(s)
    /\ last' = Response("CreateGembaWalk", 200, "ok", requests[s].seedId, {})
    /\ requests' = [requests EXCEPT ![s] = Idle]
    /\ UNCHANGED <<gembaWalks, gembaWalkAreas, gembaWalkParticipants, findings,
                   notifications, nextWalkId, nextFindingId>>

\* ------------------------------------------------------------------ finding update, await by await
\* PATCH /api/findings/:id as the steps between its awaits.  The handler
\* keeps the finding row it selected first and decides everything on it.

\* the permission checks on the selected finding row: status and message of
\* the response they end in (200 when all pass)
UpdateGuards(finding, userId, body) ==
    LET isResponsible == IsResponsible(finding, userId)
        isCreator == IsCreator(finding, userId)
    IN  IF ~CanUpdate(isResponsible, isCreator)
        THEN <<403, "No tienes permisos para actualizar este hallazgo">>
        ELSE IF Truthy(body.status) /\ CloseForbidden(body.status, isResponsible)
        THEN <<403, "Solo el responsable puede cerrar el hallazgo">>
        ELSE IF DueDateForbidden(body.dueDate, isResponsible)
        THEN <<403, "Solo el responsable puede establecer la fecha de compromiso">>
        ELSE <<200, "ok">>

\* the await the handler reaches after its first-due-date update, or instead of it
AfterDueDate(finding, body) == IF Closing(finding, body.status) THEN "close" ELSE "update"

\* the await the handler reaches once the permission checks have passed
AfterGuards(finding, body) ==
    IF body.dueDate # UNDEF /\ FirstDueDate(finding, body.dueDate) THEN "dueDate"
    ELSE AfterDueDate(finding, body)

\* the finding is selected
UpdateFindingSelect(s, userId, id, body) ==
    /\ requests[s] = Idle
    /\ IF id \notin DOMAIN findings THEN
           /\ last' = Response("UpdateFinding", 404, "Hallazgo no encontrado", NoId, {})
           /\ UNCHANGED requests
       ELSE
           /\ requests' = [requests EXCEPT ![s] =
                  [op |-> "UpdateFinding", userId |-> userId, id |-> id, body |-> body,
                   finding |-> findings[id], pc |-> "walk"]]
           /\ UNCHANGED last
    /\ UNCHANGED <<gembaWalks, gembaWalkAreas, gembaWalkParticipants, findings,
                   notifications, nextWalkId, nextFindingId>>

\* the walk is selected and the permission checks run on the selected finding
UpdateFindingGuards(s) ==
    /\ requests[s].op = "UpdateFinding" /\ requests[s].pc = "walk"
    /\ LET r == requests[s]
           check == UpdateGuards(r.finding, r.userId, r.body)
       IN  IF Returned(check[1]) THEN
               /\ last' = Response("UpdateFinding", check[1], check[2], NoId, {})
               /\ requests' = [requests EXCEPT ![s] = Idle]
           ELSE
               /\ requests' = [requests EXCEPT ![s].pc = AfterGuards(r.finding, r.body)]
               /\ UNCHANGED last
    /\ UNCHANGED <<gembaWalks, gembaWalkAreas, gembaWalkParticipants, findings,
                   notifications, nextWalkId, nextFindingId>>

\* the notification update for a first due date
UpdateFindingDueDate(s) ==
    /\ requests[s].op = "UpdateFinding" /\ requests[s].pc = "dueDate"
    /\ notifications' = SetActionCompleted(notifications, AssignedWhere(notifications, requests[s].id))
    /\ requests' = [requests EXCEPT ![s].pc = AfterDueDate(requests[s].finding, requests[s].body)]
    /\ UNCHANGED <<gembaWalks, gembaWalkAreas, gembaWalkParticipants, findings,
                   nextWalkId, nextFindingId, last>>

\* the notification update of a request that closes the selected finding
UpdateFindingClose(s) ==
    /\ requests[s].op = "UpdateFinding" /\ requests[s].pc = "close"
    /\ notifications' = SetActionCompleted(notifications, RelatedWhere(notifications, requests[s].id))
    /\ requests' = [requests EXCEPT ![s].pc = "update"]
    /\ UNCHANGED <<gembaWalks, gembaWalkAreas, gembaWalkParticipants, findings,
                   nextWalkId, nextFindingId, last>>

\* storage.updateFinding and the response; an UPDATE of a row that is gone
\* changes nothing
UpdateFindingWrite(s) ==
    /\ requests[s].op = "UpdateFinding" /\ requests[s].pc = "update"
    /\ LET r == requests[s]
       IN  IF EmptyUpdate(r.body) THEN
               /\ last' = Response("UpdateFinding", 500, "Error al actualizar hallazgo", NoId, {})
               /\ UNCHANGED findings
           ELSE
               /\ last' = Response("UpdateFinding", 200, "ok", r.id, UpdateEffect(r.finding, r.body))
               /\ findings' = IF r.id \in DOMAIN findings
                              THEN [findings EXCEPT ![r.id] = updateFinding(@, r.body)]
                              ELSE findings
    /\ requests' = [requests EXCEPT ![s] = Idle]
    /\ UNCHANGED <<gembaWalks, gembaWalkAreas, gembaWalkParticipants,
                   notifications, nextWalkId, nextFindingId>>

\* ------------------------------------------------------------------ finding creation, await by await
\* POST /api/findings: the required fields, the walk and its leader
CreateFindingSelectWalk(s, userId, body) ==
    /\ requests[s] = Idle
    /\ IF ~RequiredFieldsPresent(body) THEN
           /\ last' = Response("CreateFinding", 400,
                               "Gemba Walk, categoria, descripcion y responsable son requeridos",
                               body.gembaWalkId, {})
           /\ UNCHANGED requests
       ELSE IF body.gembaWalkId \notin DOMAIN gembaWalks THEN
           /\ last' = Response("CreateFinding", 404, "Gemba Walk no encontrado", body.gembaWalkId, {})
           /\ UNCHANGED requests
       ELSE IF ~IsLeader(gembaWalks[body.gembaWalkId], userId) THEN
           /\ last' = Response("CreateFinding", 403,
                               "Solo el lider del Gemba Walk puede crear hallazgos",
                               body.gembaWalkId, {})
           /\ UNCHANGED requests
       ELSE
           /\ nextFindingId <= MaxFindings
           /\ requests' = [requests EXCEPT ![s] =
                  [op |-> "CreateFinding", userId |-> userId, body |-> body,
                   findingId |-> NoId, pc |-> "responsible"]]
           /\ UNCHANGED last
    /\ UNCHANGED <<gembaWalks, gembaWalkAreas, gembaWalkParticipants, findings,
                   notifications, nextWalkId, nextFindingId>>

\* the responsible user is selected
CreateFindingSelectResponsible(s) ==
    /\ requests[s].op = "CreateFinding" /\ requests[s].pc = "responsible"
    /\ IF requests[s].body.responsibleId \notin Users THEN
           /\ last' = Response("CreateFinding", 400, "Usuario responsable no encontrado",
                               requests[s].body.gembaWalkId, {})
           /\ requests' = [requests EXCEPT ![s] = Idle]
       ELSE
           /\ requests' = [requests EXCEPT ![s].pc = "insert"]
           /\ UNCHANGED last
    /\ UNCHANGED <<gembaWalks, gembaWalkAreas, gembaWalkParticipants, findings,
                   notifications, nextWalkId, nextFindingId>>

\* storage.createFinding: findings.gemba_walk_id references no table, the
\* insert does not look at the walks
CreateFindingInsert(s) ==
    /\ requests[s].op = "CreateFinding" /\ requests[s].pc = "insert"
    /\ nextFindingId <= MaxFindings
    /\ findings' = Insert(findings, nextFindingId, NewFinding(requests[s].body))
    /\ nextFindingId' = nextFindingId + 1
    /\ requests' = [requests EXCEPT ![s].pc = "notify", ![s].findingId = nextFindingId]
    /\ UNCHANGED <<gembaWalks, gembaWalkAreas, gembaWalkParticipants,
                   notifications, nextWalkId, last>>

\* the notification for the responsible user, and the response
CreateFindingNotify(s) ==
    /\ requests[s].op = "CreateFinding" /\ requests[s].pc = "notify"
    /\ notifications' = Append(notifications,
                               FindingNotification(requests[s].body.responsibleId, requests[s].findingId))
    /\ last' = Response("CreateFinding", 200, "ok", requests[s].findingId, {})
    /\ requests' = [requests EXCEPT ![s] = Idle]
    /\ UNCHANGED <<gembaWalks, gembaWalkAreas, gembaWalkParticipants, findings,
                   nextWalkId, nextFindingId>>

\* ------------------------------------------------------------------ walk deletion, await by await
\* DELETE /api/gemba-walks/:id: the middleware, then four DELETE statements
DeleteGembaWalkBegin(s, userId, id) ==
    /\ requests[s] = Idle
    /\ IF ~isAdmin(userId) THEN
           /\ last' = Response("DeleteGembaWalk", 403, "No tienes permisos de administrador", NoId, {})
           /\ UNCHANGED requests
       ELSE
           /\ requests' = [requests EXCEPT ![s] = [op |-> "DeleteGembaWalk", id |-> id, pc |-> "areas"]]
           /\ UNCHANGED last
    /\ UNCHANGED <<gembaWalks, gembaWalkAreas, gembaWalkParticipants, findings,
                   notifications, nextWalkId, nextFindingId>>

\* the next DELETE statement of the request; the response follows the last one
DeleteGembaWalkCall(s) ==
    /\ requests[s].op = "DeleteGembaWalk"
    /\ LET r == requests[s]
       IN  /\ gembaWalkAreas' =
                  IF r.pc = "areas" THEN DeleteByWalk(gembaWalkAreas, r.id) ELSE gembaWalkAreas
           /\ gembaWalkParticipants' =
                  IF r.pc = "participants" THEN DeleteByWalk(gembaWalkParticipants, r.id)
                  ELSE gembaWalkParticipants
           /\ findings' =
                  IF r.pc = "findings"
                  THEN Remove(findings, {f \in DOMAIN findings : findings[f].gembaWalkId = r.id})
                  ELSE findings
           /\ gembaWalks' = IF r.pc = "walk" THEN Remove(gembaWalks, {r.id}) ELSE gembaWalks
           /\ last' = IF r.pc = "walk" THEN Response("DeleteGembaWalk", 200, "ok", r.id, {}) ELSE last
           /\ requests' = [requests EXCEPT ![s] =
                  IF r.pc = "areas" THEN [r EXCEPT !.pc = "participants"]
                  ELSE IF r.pc = "participants" THEN [r EXCEPT !.pc = "findings"]
                  ELSE IF r.pc = "findings" THEN [r EXCEPT !.pc = "walk"]
                  ELSE Idle]
    /\ UNCHANGED <<notifications, nextWalkId, nextFindingId>>

\* ------------------------------------------------------------------ requests
\* The requests of the lifecycle specification.  u1 is the administrator who
\* schedules walks, u2 leads them, u3 takes part and is assigned findings.
WalkBody(leaderId, participantIds, isRecurring, recurrencePattern, recurrenceEndDate) ==
    [date |-> <<2024, 3, 1>>, areas |-> <<"A", "B">>,
     leaderId |-> leaderId, participantIds |-> participantIds,
     isRecurring |-> isRecurring, recurrencePattern |-> recurrencePattern,
     recurrenceEndDate |-> recurrenceEndDate]

WalkBodies ==
    {WalkBody("u2", <<"u3">>, FALSE, UNDEF, NoDateText),
     WalkBody(UNDEF, <<>>, FALSE, UNDEF, NoDateText),
     WalkBody("u1", <<>>, TRUE, "weekly", <<2024, 3, 7>>),
     WalkBody("u1", <<>>, TRUE, "weekly", <<2024, 3, 8>>)}

Schedulers == {"u1", "u2"}

FindingBody(gembaWalkId, category, responsibleId, status) ==
    [gembaWalkId |-> gembaWalkId, area |-> UNDEF, category |-> category,
     description |-> "X", responsibleId |-> responsibleId, status |-> status]

FindingBodies ==
    {FindingBody(w, "Seguridad", r, UNDEF) : w \in 1..MaxWalks, r \in {"u1", "u3", GhostUser}}
    \cup {FindingBody(w, "Seguridad", "u3", "closed") : w \in 1..MaxWalks}
    \cup {FindingBody(w, UNDEF, "u3", UNDEF) : w \in 1..MaxWalks}

DueDates == {"2024-03-10", "2024-03-20"}

UpdateBody(status, dueDate) ==
    [status |-> status, closeComment |-> UNDEF, dueDate |-> dueDate, file |-> UNDEF]

UpdateBodies ==
    {UpdateBody(UNDEF, UNDEF), UpdateBody("open", UNDEF), UpdateBody("closed", UNDEF)}
    \cup {UpdateBody(UNDEF, d) : d \in {""} \cup DueDates}
    \cup {UpdateBody("closed", d) : d \in DueDates}

\* the users who call the read endpoints and the action-completed endpoint
Readers == {"u2"}
Completers == {"u3"}
\* the user who asks for the count of pending actions
Counters == {"u3"}

\* ------------------------------------------------------------------ specification
Init ==
    /\ gembaWalks = << >>
    /\ gembaWalkAreas = << >>
    /\ gembaWalkParticipants = << >>
    /\ findings = << >>
    /\ notifications = << >>
    /\ nextWalkId = 1
    /\ nextFindingId = 1
    /\ last = Response("none", 0, "", NoId, {})
    /\ requests = [s \in Sessions |-> Idle]

Next ==
    \/ \E u \in Schedulers, b \in WalkBodies : CreateGembaWalk(u, b)
    \/ \E u \in Schedulers, id \in 1..MaxWalks : DeleteGembaWalk(u, id)
    \/ \E u \in Users, b \in FindingBodies : CreateFinding(u, b)
    \/ \E u \in Users, id \in 1..MaxFindings, b \in UpdateBodies : UpdateFinding(u, id, b)
    \/ \E u \in Readers, id \in 1..Len(notifications) : MarkRead(u, id)
    \/ \E u \in Completers, id \in 1..Len(notifications) : MarkActionCompleted(u, id)
    \/ \E u \in Readers : MarkAllRead(u)
    \/ \E u \in Counters : PendingCount(u)

Spec == Init /\ [][Next]_vars

\* ------------------------------------------------------------------ closing requests
\* The requests of the closing specification: one walk scheduled by u1, led
\* by u2, with participant u3; findings assigned to any of the three; updates
\* of the first finding that carry every combination of status, close
\* comment, evidence file and due date, while a later finding stands by.
CloseWalkBodies == {WalkBody("u2", <<"u3">>, FALSE, UNDEF, NoDateText)}

CloseFindingBodies == {FindingBody(w, "Seguridad", r, UNDEF) : w \in 1..MaxWalks, r \in Users}

CloseTargets == {1}

CloseBody(status, closeComment, file, dueDate) ==
    [status |-> status, closeComment |-> closeComment, dueDate |-> dueDate, file |-> file]

CloseBodies ==
    {CloseBody(s, c, f, d) : s \in {UNDEF, "open", "closed"}, c \in {UNDEF, "hecho", "revisado"},
                             f \in {UNDEF, "foto.jpg"}, d \in {UNDEF, "2024-03-10"}}

NextClose ==
    \/ \E b \in CloseWalkBodies : CreateGembaWalk("u1", b)
    \/ \E u \in Users, b \in CloseFindingBodies : CreateFinding(u, b)
    \/ \E u \in Users, id \in CloseTargets, b \in CloseBodies : UpdateFinding(u, id, b)

SpecClose == Init /\ [][NextClose]_vars

\* ------------------------------------------------------------------ area requests
\* The requests of the area specification: walks over one or two areas,
\* scheduled by u1 and led by u2, and findings that name no area, an area of
\* the plant or a text that is no area at all.
AreaLists == {<<"A">>, <<"A", "B">>, <<"B", "C">>}

AreaWalkBodies ==
    {[WalkBody("u2", <<>>, FALSE, UNDEF, NoDateText) EXCEPT !.areas = a] : a \in AreaLists}

AreaFindingBodies ==
    {[FindingBody(w, "Seguridad", "u3", UNDEF) EXCEPT !.area = a] :
        w \in 1..MaxWalks, a \in {UNDEF, "", "A", "B", "C", "Z"}}

NextAreas ==
    \/ \E b \in AreaWalkBodies : CreateGembaWalk("u1", b)
    \/ \E id \in 1..MaxWalks : DeleteGembaWalk("u1", id)
    \/ \E u \in {"u2", "u3"}, b \in AreaFindingBodies : CreateFinding(u, b)

SpecAreas == Init /\ [][NextAreas]_vars

\* ------------------------------------------------------------------ recurrence requests
\* The requests of the recurrence specification: seeds in the middle and at
\* the end of a month, before a year's end and on a leap day; the patterns
\* the schema names; no end date, end dates before the seed, before and on
\* the first advanced dates, on month ends, and beyond the twelfth advanced
\* date.  A second family varies the leader, the participants (the leader
\* among them or not) and the areas of individual and of weekly walks.
SeedDates ==
    {<<2024, 1, 15>>, <<2024, 1, 31>>, <<2023, 12, 28>>, <<2024, 2, 29>>, <<2023, 3, 31>>, <<2024, 8, 30>>}

EndDates ==
    {NoDateText, <<2023, 1, 1>>, <<2024, 1, 16>>, <<2024, 1, 22>>, <<2024, 2, 15>>, <<2024, 2, 20>>,
     <<2024, 3, 31>>, <<2024, 9, 30>>, <<2026, 1, 1>>}

RecurrencePatterns == {"weekly", "monthly", "daily"}

RecurrenceBodies ==
    {[WalkBody("u2", <<>>, TRUE, p, e) EXCEPT !.date = d] :
        d \in SeedDates, p \in RecurrencePatterns, e \in EndDates}

FanOutBodies ==
    {[WalkBody(l, ps, r, IF r THEN "weekly" ELSE UNDEF, e) EXCEPT !.date = <<2024, 1, 15>>, !.areas = a] :
        l \in {UNDEF, "u2"}, ps \in {<<>>, <<"u3">>, <<"u2", "u3">>}, r \in BOOLEAN,
        e \in {<<2024, 1, 22>>, <<2024, 2, 15>>}, a \in {<<"A">>, <<"A", "B">>}}

DeleteTargets == {1, 2}

NextRecurrence ==
    \/ \E u \in Schedulers, b \in RecurrenceBodies \cup FanOutBodies : CreateGembaWalk(u, b)
    \/ \E id \in DeleteTargets : DeleteGembaWalk("u1", id)

SpecRecurrence == Init /\ [][NextRecurrence]_vars

\* ------------------------------------------------------------------ expansion requests
\* The requests of the expansion specification: weekly walks with two derived
\* walks, with and without leader, participant and second area, created call
\* by call on one connection; any call may throw.
ExpansionBodies ==
    {[WalkBody(l, ps, TRUE, "weekly", <<2024, 1, 29>>) EXCEPT !.date = <<2024, 1, 15>>, !.areas = a] :
        l \in {UNDEF, "u2"}, ps \in {<<>>, <<"u3">>}, a \in {<<"A">>, <<"A", "B">>}}

NextExpansion ==
    \/ \E u \in Schedulers, b \in ExpansionBodies : CreateGembaWalkBegin("s1", u, b)
    \/ CreateGembaWalkCall("s1")
    \/ CreateGembaWalkThrows("s1")
    \/ CreateGembaWalkRespond("s1")

SpecExpansion == Init /\ [][NextExpansion]_vars

\* ------------------------------------------------------------------ concurrent requests
\* The requests of the concurrent specification: one walk scheduled by u1
\* and led by u2; the leader reports findings assigned to u3 or to an unknown
\* user; u3 closes them or sets their due date and u1 tries to; u1 deletes
\* the walk.  Walks are created in one step, the other requests run await by
\* await on two connections.
ConcurrentWalkBodies == {WalkBody("u2", <<>>, FALSE, UNDEF, NoDateText)}

ConcurrentFindingBodies ==
    {FindingBody(w, "Seguridad", r, UNDEF) : w \in 1..MaxWalks, r \in {"u3", GhostUser}}

ConcurrentUpdateBodies ==
    {UpdateBody("closed", UNDEF), UpdateBody(UNDEF, "2024-03-10"), UpdateBody(UNDEF, UNDEF)}

NextConcurrent ==
    \/ \E b \in ConcurrentWalkBodies : CreateGembaWalk("u1", b)
    \/ \E s \in Sessions, b \in ConcurrentFindingBodies : CreateFindingSelectWalk(s, "u2", b)
    \/ \E s \in Sessions : CreateFindingSelectResponsible(s)
    \/ \E s \in Sessions : CreateFindingInsert(s)
    \/ \E s \in Sessions : CreateFindingNotify(s)
    \/ \E s \in Sessions, u \in {"u1", "u3"}, id \in CloseTargets, b \in ConcurrentUpdateBodies :
          UpdateFindingSelect(s, u, id, b)
    \/ \E s \in Sessions : UpdateFindingGuards(s)
    \/ \E s \in Sessions : UpdateFindingDueDate(s)
    \/ \E s \in Sessions : UpdateFindingClose(s)
    \/ \E s \in Sessions : UpdateFindingWrite(s)
    \/ \E s \in Sessions, id \in 1..MaxWalks : DeleteGembaWalkBegin(s, "u1", id)
    \/ \E s \in Sessions : DeleteGembaWalkCall(s)

SpecConcurrent == Init /\ [][NextConcurrent]_vars

\* ------------------------------------------------------------------ claims
\* the notifications that reference finding f
RelatedNotifications(rows, f) == {i \in 1..Len(rows) : rows[i].relatedFindingId = f}

\* the finding_assigned notifications of finding f
AssignedNotifications(rows, f) ==
    {i \in RelatedNotifications(rows, f) : rows[i].type = "finding_assigned"}

\* C1: a Create that carries all required fields and names an existing walk,
\* sent by a user who is not that walk's leader (also when the walk has no
\* leader), is answered 403 and persists no finding and no notification:
\* a step of the endpoint that is not such a refusal is the result of no
\* such request.
C1_OnlyLeaderCreates ==
    [][last'.op = "CreateFinding" =>
        \/ last'.code = 403 /\ findings' = findings /\ notifications' = notifications
        \/ \A u \in Users, b \in FindingBodies :
              ~(/\ RequiredFieldsPresent(b)
                /\ b.gembaWalkId \in DOMAIN gembaWalks
                /\ gembaWalks[b.gembaWalkId].leaderId # u
                /\ CreateFinding(u, b))]_vars

\* a Create was refused for lack of leadership on a walk led by somebody else
\* on which the refused users include the creator and a participant
C1_Witness ==
    /\ last.op = "CreateFinding"
    /\ last.code = 403
    /\ last.message = "Solo el lider del Gemba Walk puede crear hallazgos"
    /\ \E w \in DOMAIN gembaWalks :
          /\ gembaWalks[w].leaderId = "u2"
          /\ gembaWalks[w].createdBy = "u1"
          /\ \E i \in 1..Len(gembaWalkParticipants) : gembaWalkParticipants[i].gembaWalkId = w

\* C2: every finding is in status open right after the Create that made it.
C2_CreatedOpen ==
    [][\A f \in DOMAIN findings' \ DOMAIN findings : findings'[f].status = "open"]_vars

\* the findings present before and after a step
Kept == DOMAIN findings \cap DOMAIN findings'

C4_OnlyResponsibleCloses ==
    [][last'.op = "UpdateFinding" =>
        \/ last'.code = 403 /\ findings' = findings
        \/ \A u \in Users, f \in DOMAIN findings, b \in UpdateBodies :
              ~(b.status = "closed" /\ findings[f].responsibleId # u /\ UpdateFinding(u, f, b))]_vars

\* the creator of the walk, who is not the responsible user, has just been
\* refused the closing of an open finding
C4_Witness ==
    /\ last.op = "UpdateFinding"
    /\ last.code = 403
    /\ last.message = "Solo el responsable puede cerrar el hallazgo"
    /\ \E f \in DOMAIN findings :
          /\ findings[f].status = "open"
          /\ findings[f].responsibleId # gembaWalks[findings[f].gembaWalkId].createdBy

\* C5: a new finding has no due date; a due date that was null becomes set
\* only in a successful update by the responsible user that supplies one; and
\* a request that supplies a due date and comes from anyone else is answered
\* 403 and leaves every finding as it was.
C5_DueDateByResponsibleOnly ==
    [][/\ \A f \in DOMAIN findings' \ DOMAIN findings : findings'[f].dueDate = NULL
       /\ \A f \in Kept :
             (findings[f].dueDate = NULL /\ findings'[f].dueDate # NULL)
             => /\ last'.op = "UpdateFinding" /\ last'.code = 200
                /\ \E b \in UpdateBodies :
                      b.dueDate # UNDEF /\ UpdateFinding(findings[f].responsibleId, f, b)
       /\ last'.op = "UpdateFinding" =>
             \/ last'.code = 403 /\ findings' = findings
             \/ \A u \in Users, f \in DOMAIN findings, b \in UpdateBodies :
                   ~(b.dueDate # UNDEF /\ findings[f].responsibleId # u /\ UpdateFinding(u, f, b))]_vars

\* the walk's creator has just been refused a due date on a finding that has none
C5_Witness ==
    /\ last.op = "UpdateFinding"
    /\ last.code = 403
    /\ last.message = "Solo el responsable puede establecer la fecha de compromiso"
    /\ \E f \in DOMAIN findings : findings[f].dueDate = NULL

\* C6: once a finding has a due date, no step replaces it by another date or
\* by null.
C6_DueDateSetOnce ==
    [][\A f \in Kept :
        findings[f].dueDate # NULL => findings'[f].dueDate = findings[f].dueDate]_vars

\* C7: a successful Create adds exactly one notification: finding_assigned,
\* to the new finding's responsible user, referencing the new finding, with
\* an action required and not completed.
C7_CreateNotifiesResponsible ==
    [][(last'.op = "CreateFinding" /\ last'.code = 200) =>
        LET f == last'.id
            n == notifications'[Len(notifications')]
        IN  /\ f \in DOMAIN findings' \ DOMAIN findings
            /\ Len(notifications') = Len(notifications) + 1
            /\ SubSeq(notifications', 1, Len(notifications)) = notifications
            /\ n.type = "finding_assigned"
            /\ n.userId = findings'[f].responsibleId
            /\ n.relatedFindingId = f
            /\ n.isActionRequired
            /\ ~n.isActionCompleted]_vars

\* a finding has just been created and its notification is pending
C7_Witness ==
    /\ last.op = "CreateFinding"
    /\ last.code = 200
    /\ \E i \in AssignedNotifications(notifications, last.id) : ~notifications[i].isActionCompleted

\* C8: when an update by the responsible user takes a finding's due date from
\* null to a date, the finding_assigned notification of that finding exists
\* and is completed afterwards.
C8_FirstDueDateCompletes ==
    [][last'.op = "UpdateFinding" =>
        \A f \in Kept :
            (findings[f].dueDate = NULL /\ findings'[f].dueDate # NULL)
            => /\ AssignedNotifications(notifications', f) # {}
               /\ \A i \in AssignedNotifications(notifications', f) :
                     notifications'[i].isActionCompleted]_vars

\* a first due date has just been set on a finding that stays open
C8_Witness ==
    /\ last.op = "UpdateFinding"
    /\ last.code = 200
    /\ last.effect = {"firstDueDate"}
    /\ findings[last.id].status = "open"
    /\ findings[last.id].dueDate # NULL

\* C9: a finding_assigned notification always requires an action, and it
\* turns completed only in a step after which its finding has a due date or
\* is closed.
C9_CompletedOnlyWhenResolved ==
    [][\A i \in 1..Len(notifications) :
        notifications[i].type = "finding_assigned"
        => /\ notifications'[i].isActionRequired
           /\ (~notifications[i].isActionCompleted /\ notifications'[i].isActionCompleted)
              => LET f == notifications[i].relatedFindingId
                 IN  /\ f \in DOMAIN findings'
                     /\ findings'[f].dueDate # NULL \/ findings'[f].status = "closed"]_vars

\* C10: after a successful Close of an open finding every notification that
\* references the finding is completed.
C10_CloseCompletesRelated ==
    [][last'.op = "UpdateFinding" =>
        \A f \in Kept :
            (findings[f].status = "open" /\ findings'[f].status = "closed")
            => \A i \in RelatedNotifications(notifications', f) :
                  notifications'[i].isActionCompleted]_vars

\* an open finding without a due date has just been closed
C10_Witness ==
    /\ last.op = "UpdateFinding"
    /\ last.code = 200
    /\ last.effect = {"closing"}
    /\ findings[last.id].dueDate = NULL
    /\ RelatedNotifications(notifications, last.id) # {}

\* a Close: an update with status closed that carries no due date
IsClose(b) == b.status = "closed" /\ b.dueDate = UNDEF

\* C11: every Close of a finding by its responsible user succeeds and leaves
\* the finding closed; the Close of a finding that is not yet closed completes
\* the notifications that reference it, and a Close of a finding that is
\* already closed (the second of two Closes in sequence) skips that update
\* and changes no notification at all.
C11_IdempotentClose ==
    [][last'.op = "UpdateFinding" =>
        \/ /\ last'.code = 200
           /\ findings'[last'.id].status = "closed"
           /\ IF findings[last'.id].status = "closed"
              THEN "closing" \notin last'.effect /\ notifications' = notifications
              ELSE /\ "closing" \in last'.effect
                   /\ \A i \in RelatedNotifications(notifications', last'.id) :
                         notifications'[i].isActionCompleted
        \/ \A f \in DOMAIN findings, b \in CloseBodies :
              ~(IsClose(b) /\ UpdateFinding(findings[f].responsibleId, f, b))]_vars

\* a closed finding has just been closed again, its notification completed
\* by the first Close
C11_Witness ==
    /\ last.op = "UpdateFinding"
    /\ last.code = 200
    /\ last.effect = {"alreadyClosed"}
    /\ findings[last.id].status = "closed"
    /\ \A i \in RelatedNotifications(notifications, last.id) : notifications[i].isActionCompleted

\* C12: a Close of a finding that is already closed leaves its status, close
\* comment and close-evidence URL as the first Close left them.
C12_RepeatedCloseNoOp ==
    [][(last'.op = "UpdateFinding" /\ last'.code = 200 /\ "alreadyClosed" \in last'.effect) =>
        LET f == last'.id
        IN  /\ findings'[f].status = findings[f].status
            /\ findings'[f].closeComment = findings[f].closeComment
            /\ findings'[f].closeEvidenceUrl = findings[f].closeEvidenceUrl]_vars

\* C13: an update of a finding by a user who is neither its responsible user
\* nor the creator of its walk is answered 403 and changes nothing, whatever
\* status, close comment, evidence and due date it carries: a step of the
\* endpoint that is not such a refusal is the result of no such request.
C13_OnlyCreatorOrResponsibleUpdates ==
    [][last'.op = "UpdateFinding" =>
        \/ /\ last' = Response("UpdateFinding", 403, "No tienes permisos para actualizar este hallazgo", NoId, {})
           /\ findings' = findings
           /\ notifications' = notifications
        \/ \A u \in Users, f \in DOMAIN findings, b \in CloseBodies :
              ~(/\ u # findings[f].responsibleId
                /\ u # gembaWalks[findings[f].gembaWalkId].createdBy
                /\ UpdateFinding(u, f, b))]_vars

\* an update has just been refused on a finding whose walk is led by one
\* user and attended by another, neither of them its responsible user
C13_Witness ==
    /\ last.op = "UpdateFinding"
    /\ last.code = 403
    /\ last.message = "No tienes permisos para actualizar este hallazgo"
    /\ \E f \in DOMAIN findings :
          LET w == findings[f].gembaWalkId
          IN  /\ findings[f].responsibleId = gembaWalks[w].createdBy
              /\ gembaWalks[w].leaderId \in Users \ {findings[f].responsibleId}
              /\ \E i \in 1..Len(gembaWalkParticipants) :
                    /\ gembaWalkParticipants[i].gembaWalkId = w
                    /\ gembaWalkParticipants[i].userId # findings[f].responsibleId

\* C14: a successful update sent by the creator of the walk, who is not the
\* finding's responsible user, changes no field of the finding but its status.
C14_CreatorChangesStatusOnly ==
    [][(last'.op = "UpdateFinding" /\ last'.code = 200) =>
        \A u \in Users, b \in CloseBodies :
            (/\ u # findings[last'.id].responsibleId
             /\ u = gembaWalks[findings[last'.id].gembaWalkId].createdBy
             /\ UpdateFinding(u, last'.id, b))
            => findings'[last'.id] = [findings[last'.id] EXCEPT !.status = findings'[last'.id].status]]_vars

\* C15: a Create or an update of a finding that is answered 403 leaves every
\* finding and every notification as it was before the request.
C15_ForbiddenChangesNothing ==
    [][(last'.op \in {"CreateFinding", "UpdateFinding"} /\ last'.code = 403) =>
        /\ findings' = findings
        /\ notifications' = notifications]_vars

\* the creator of the walk has just been refused an update that was subject
\* to a guard of the responsible user, on an open finding whose notification
\* still awaits its action
C15_Witness ==
    /\ last.op = "UpdateFinding"
    /\ last.code = 403
    /\ last.message \in {"Solo el responsable puede cerrar el hallazgo",
                         "Solo el responsable puede establecer la fecha de compromiso"}
    /\ \E f \in DOMAIN findings :
          /\ findings[f].status = "open"
          /\ findings[f].closeComment = NULL
          /\ \E i \in AssignedNotifications(notifications, f) : ~notifications[i].isActionCompleted

\* C16: a Create that names a walk that does not exist, an update of a
\* finding that does not exist and the deletion of a walk that does not exist
\* are answered 404 and change no table.
C16_MissingEntityNotFound ==
    [][\/ /\ last'.code = 404
          /\ UNCHANGED <<gembaWalks, gembaWalkAreas, gembaWalkParticipants, findings, notifications>>
       \/ /\ \A u \in Users, b \in FindingBodies :
                ~(RequiredFieldsPresent(b) /\ b.gembaWalkId \notin DOMAIN gembaWalks /\ CreateFinding(u, b))
          /\ \A u \in Users, id \in 1..MaxFindings, b \in UpdateBodies :
                ~(id \notin DOMAIN findings /\ UpdateFinding(u, id, b))
          /\ \A u \in Schedulers, id \in 1..MaxWalks :
                ~(isAdmin(u) /\ id \notin DOMAIN gembaWalks /\ DeleteGembaWalk(u, id))]_vars

\* the areas of walk w: its main area and its additional areas
WalkAreas(w) ==
    {gembaWalks[w].area}
    \cup {gembaWalkAreas[i].areaName : i \in {j \in 1..Len(gembaWalkAreas) : gembaWalkAreas[j].gembaWalkId = w}}

\* C17: in every state the area of a finding, when it has one, is one of the
\* areas of its walk.
C17_AreaAmongWalkAreas ==
    \A f \in DOMAIN findings :
        findings[f].area # NULL => findings[f].area \in WalkAreas(findings[f].gembaWalkId)

\* the number of the day of a date text, counted through the calendar
DaysBeforeYear(y) == 365 * (y - 1) + (y - 1) \div 4 - (y - 1) \div 100 + (y - 1) \div 400
DaysBeforeMonth(y, m) ==
    <<0, 31, 59, 90, 120, 151, 181, 212, 243, 273, 304, 334>>[m]
    + (IF m > 2 /\ IsLeap(y) THEN 1 ELSE 0)
DayNumber(t) == DaysBeforeYear(t[1]) + DaysBeforeMonth(t[1], t[2]) + t[3]

\* the walks derived from seed w, and the i-th of them (i from 0): the walks
\* table hands out consecutive ids
Instances(walks, w) == {i \in DOMAIN walks : walks[i].parentWalkId = w}
Instance(walks, w, i) == walks[w + 1 + i]

\* the seed a successful scheduling request has just stored
IsNewSeed(w, pattern) ==
    /\ last'.op = "CreateGembaWalk" /\ last'.code = 200 /\ last'.id = w
    /\ gembaWalks'[w].isRecurring
    /\ gembaWalks'[w].recurrencePattern = pattern

RECURSIVE Advanced(_, _, _)
Advanced(text, pattern, k) ==
    IF k = 0 THEN text ELSE format(NextDate(parseISO(Advanced(text, pattern, k - 1)), pattern))

\* C19: a weekly or monthly seed with an end date gets one derived walk for
\* each of its first 12 advanced dates that is on or before the end date, in
\* order, and none for a later one; the request succeeds also when that
\* leaves no derived walk.
C19_EndDateTruncation ==
    [][\A w \in DOMAIN gembaWalks', pattern \in {"weekly", "monthly"} :
        (IsNewSeed(w, pattern) /\ gembaWalks'[w].recurrenceEndDate # NoDateText)
        => LET seed == gembaWalks'[w]
               kept == {k \in 1..12 : DayNumber(Advanced(seed.date, pattern, k))
                                        <= DayNumber(seed.recurrenceEndDate)}
           IN  /\ Instances(gembaWalks', w) = (w + 1)..(w + Cardinality(kept))
               /\ kept = 1..Cardinality(kept)
               /\ \A k \in kept : Instance(gembaWalks', w, k - 1).date = Advanced(seed.date, pattern, k)]_vars

\* a monthly seed of 15 January 2024 that ends on 20 February has the single
\* derived walk of 15 February
C19_Witness ==
    \E w \in DOMAIN gembaWalks :
        /\ gembaWalks[w].recurrencePattern = "monthly"
        /\ gembaWalks[w].date = <<2024, 1, 15>>
        /\ gembaWalks[w].recurrenceEndDate = <<2024, 2, 20>>
        /\ Instances(gembaWalks, w) = {w + 1}
        /\ gembaWalks[w + 1].date = <<2024, 2, 15>>

\* the date i + 1 calendar months after a date text, on the same day-of-month,
\* reduced only when the month is too short
MonthsAfter(t, n) ==
    LET total == (t[2] - 1) + n
        y == t[1] + total \div 12
        m == (total % 12) + 1
        days == IF m = 2 THEN (IF IsLeap(y) THEN 29 ELSE 28)
                ELSE IF m \in {4, 6, 9, 11} THEN 30 ELSE 31
    IN  <<y, m, IF t[3] > days THEN days ELSE t[3]>>

\* C20: the i-th derived walk (i from 0) of a monthly seed is i + 1 calendar
\* months after the seed, on the seed's day-of-month, the day reduced only in
\* a month too short to contain it.
C20_MonthlyKeepsDayOfMonth ==
    [][\A w \in DOMAIN gembaWalks' :
        IsNewSeed(w, "monthly")
        => \A i \in 0..11 :
              (w + 1 + i) \in Instances(gembaWalks', w)
              => Instance(gembaWalks', w, i).date = MonthsAfter(gembaWalks'[w].date, i + 1)]_vars

\* C21: the derived walks of every accepted recurring request have strictly
\* increasing dates, all of them later than the date of the seed.
C21_InstancesAfterSeed ==
    [][(last'.op = "CreateGembaWalk" /\ last'.code = 200) =>
        LET w == last'.id
        IN  \A i \in Instances(gembaWalks', w) :
                /\ DayNumber(gembaWalks'[i].date) > DayNumber(gembaWalks'[w].date)
                /\ \A j \in Instances(gembaWalks', w) :
                      j > i => DayNumber(gembaWalks'[j].date) > DayNumber(gembaWalks'[i].date)]_vars

\* the additional areas and the participants of walk w, in stored order
AreaNames(rows, w) ==
    LET own == SelectSeq(rows, LAMBDA r : r.gembaWalkId = w)
    IN  [i \in 1..Len(own) |-> own[i].areaName]
ParticipantIds(rows, w) ==
    LET own == SelectSeq(rows, LAMBDA r : r.gembaWalkId = w)
    IN  [i \in 1..Len(own) |-> own[i].userId]

Added(i) == i > Len(notifications)

\* the number of notifications a user has that require an action not yet completed
Pending(rows, u) ==
    Cardinality({i \in 1..Len(rows) :
        rows[i].userId = u /\ rows[i].isActionRequired /\ ~rows[i].isActionCompleted})

\* C23: a successful scheduling request keeps the notifications there are
\* and adds, for its seed and for each derived walk, one gemba_walk_assigned
\* notification to the leader, when there is one, and one for each entry of
\* the participant list, each referencing that walk and requiring no action;
\* it adds nothing else, and no user's count of pending actions changes.
C23_FanOutPerWalk ==
    [][(last'.op = "CreateGembaWalk" /\ last'.code = 200) =>
        LET new == DOMAIN gembaWalks' \ DOMAIN gembaWalks
            added == {i \in 1..Len(notifications') : Added(i)}
        IN  /\ SubSeq(notifications', 1, Len(notifications)) = notifications
            /\ \A i \in added :
                  /\ notifications'[i].type = "gemba_walk_assigned"
                  /\ notifications'[i].relatedGembaWalkId \in new
                  /\ notifications'[i].relatedFindingId = NoId
                  /\ ~notifications'[i].isActionRequired
                  /\ ~notifications'[i].isActionCompleted
                  /\ ~notifications'[i].isRead
            /\ \A w \in new, u \in Users :
                  Cardinality({i \in added : notifications'[i].relatedGembaWalkId = w
                                               /\ notifications'[i].userId = u})
                  = (IF gembaWalks'[w].leaderId = u THEN 1 ELSE 0)
                    + Cardinality({k \in 1..Len(ParticipantIds(gembaWalkParticipants', w)) :
                                      ParticipantIds(gembaWalkParticipants', w)[k] = u})
            /\ \A u \in Users : Pending(notifications', u) = Pending(notifications, u)]_vars

\* a weekly request with a leader who is also one of two participants has
\* just stored its seed and four derived walks with three notifications each
C23_Witness ==
    /\ last.op = "CreateGembaWalk"
    /\ last.code = 200
    /\ gembaWalks[last.id].leaderId = "u2"
    /\ ParticipantIds(gembaWalkParticipants, last.id) = <<"u2", "u3">>
    /\ Cardinality(Instances(gembaWalks, last.id)) = 4
    /\ Len(notifications) = 15

\* C24: the count the pending-count endpoint reports to a user is the number
\* of that user's notifications that require an action not yet completed, and
\* asking changes no table; a successful Create adds one to the count of the
\* new finding's responsible user, and once the first due date of a finding
\* is set its finding_assigned notification is not counted any more.
C24_PendingCount ==
    [][/\ last'.op = "PendingCount" =>
             /\ \E u \in Counters : last'.id = Pending(notifications', u)
             /\ UNCHANGED <<gembaWalks, gembaWalkAreas, gembaWalkParticipants, findings, notifications>>
       /\ (last'.op = "CreateFinding" /\ last'.code = 200) =>
             LET u == findings'[last'.id].responsibleId
             IN  Pending(notifications', u) = Pending(notifications, u) + 1
       /\ last'.op = "UpdateFinding" =>
             \A f \in Kept :
                 (findings[f].dueDate = NULL /\ findings'[f].dueDate # NULL)
                 => \A i \in AssignedNotifications(notifications', f) :
                       ~(notifications'[i].isActionRequired /\ ~notifications'[i].isActionCompleted)]_vars

\* the user has just been told of one pending action: a walk notification
\* does not count, the notification of a finding with a due date does not
\* count, the notification of a finding without one does
C24_Witness ==
    /\ last.op = "PendingCount"
    /\ last.id = 1
    /\ \E i \in 1..Len(notifications) :
          notifications[i].userId = "u3" /\ notifications[i].type = "gemba_walk_assigned"
    /\ \E f \in DOMAIN findings :
          /\ findings[f].responsibleId = "u3" /\ findings[f].dueDate # NULL
          /\ \A i \in AssignedNotifications(notifications, f) : notifications[i].isActionCompleted
    /\ \E f \in DOMAIN findings :
          /\ findings[f].responsibleId = "u3" /\ findings[f].dueDate = NULL
          /\ \E i \in AssignedNotifications(notifications, f) : ~notifications[i].isActionCompleted

\* C28: no step removes a notification, every field of a notification but
\* isRead and isActionCompleted stays as it was created, and these two only
\* turn from false to true.
C28_NotificationsOnlyGainFlags ==
    [][/\ Len(notifications') >= Len(notifications)
       /\ \A i \in 1..Len(notifications) :
             /\ notifications'[i] = [notifications[i] EXCEPT
                                        !.isRead = notifications'[i].isRead,
                                        !.isActionCompleted = notifications'[i].isActionCompleted]
             /\ notifications[i].isRead => notifications'[i].isRead
             /\ notifications[i].isActionCompleted => notifications'[i].isActionCompleted]_vars

\* a walk has just been deleted with its finding, and the notifications of
\* both are still there
C28_Witness ==
    /\ last.op = "DeleteGembaWalk"
    /\ last.code = 200
    /\ \E i \in 1..Len(notifications) :
          notifications[i].relatedFindingId # NoId /\ notifications[i].relatedFindingId \notin DOMAIN findings
    /\ \E i \in 1..Len(notifications) :
          notifications[i].relatedGembaWalkId = last.id /\ last.id \notin DOMAIN gembaWalks

\* C29: an update that changes the due date of a finding leaves every
\* notification that references another finding as it was.
C29_DueDateTouchesOwnNotifications ==
    [][\A f \in Kept :
        findings'[f].dueDate # findings[f].dueDate
        => \A i \in 1..Len(notifications) :
              notifications[i].relatedFindingId # f => notifications'[i] = notifications[i]]_vars

\* C30: mark-read and action-completed on a notification addressed to
\* another user are answered 404 and change no notification; a successful
\* one changes only the notification it names; read-all changes isRead of
\* the caller's notifications only and no isActionCompleted.
C30_OwnNotificationsOnly ==
    [][/\ last'.op = "MarkRead" =>
             \A u \in Readers, id \in 1..Len(notifications) :
                 MarkRead(u, id) =>
                    IF notifications[id].userId = u
                    THEN \A i \in 1..Len(notifications) : i # id => notifications'[i] = notifications[i]
                    ELSE last'.code = 404 /\ notifications' = notifications
       /\ last'.op = "MarkActionCompleted" =>
             \A u \in Completers, id \in 1..Len(notifications) :
                 MarkActionCompleted(u, id) =>
                    IF notifications[id].userId = u
                    THEN \A i \in 1..Len(notifications) : i # id => notifications'[i] = notifications[i]
                    ELSE last'.code = 404 /\ notifications' = notifications
       /\ last'.op = "MarkAllRead" =>
             \A u \in Readers :
                 MarkAllRead(u) =>
                    \A i \in 1..Len(notifications) :
                        /\ notifications[i].userId # u => notifications'[i] = notifications[i]
                        /\ notifications'[i].isActionCompleted = notifications[i].isActionCompleted]_vars

\* a user has just been refused the completion of a pending notification
\* addressed to somebody else
C30_Witness ==
    /\ last.op = "MarkActionCompleted"
    /\ last.code = 404
    /\ \E i \in 1..Len(notifications) :
          /\ notifications[i].userId \notin Completers
          /\ notifications[i].isActionRequired
          /\ ~notifications[i].isActionCompleted

\* the notifications that reference walk w and are addressed to user u
WalkNotificationsTo(w, u) ==
    {i \in 1..Len(notifications) :
        notifications[i].relatedGembaWalkId = w /\ notifications[i].userId = u}

\* C25: after a walk creation that ended in an error the derived walks that
\* exist directly follow their seed, and each of them has the additional
\* areas and participants of the request and one notification for the leader
\* and for each participant.
C25_FailureKeepsWholeInstances ==
    (last.op = "CreateGembaWalk" /\ last.code = 500) =>
        \A w \in DOMAIN gembaWalks :
            gembaWalks[w].parentWalkId # NoId =>
                LET seed == gembaWalks[w].parentWalkId
                IN  /\ \A v \in seed..w : v \in DOMAIN gembaWalks
                    /\ AreaNames(gembaWalkAreas, w) = AreaNames(gembaWalkAreas, seed)
                    /\ ParticipantIds(gembaWalkParticipants, w) = ParticipantIds(gembaWalkParticipants, seed)
                    /\ \A u \in Users :
                          Cardinality(WalkNotificationsTo(w, u)) = Cardinality(WalkNotificationsTo(seed, u))

\* C26: a request by which the responsible user closes a finding it selected
\* as not closed, and has not written yet, still finds that finding not
\* closed: no other request closed it between the selection and the write.
C26_CloseGuardSerialized ==
    \A s \in Sessions :
        (/\ requests[s].op = "UpdateFinding"
         /\ IsResponsible(requests[s].finding, requests[s].userId)
         /\ Closing(requests[s].finding, requests[s].body.status)
         /\ requests[s].id \in DOMAIN findings)
            => findings[requests[s].id].status # "closed"

\* C27: every finding belongs to a walk that exists.
C27_FindingsBelongToWalks ==
    \A f \in DOMAIN findings : findings[f].gembaWalkId \in DOMAIN gembaWalks

====
